---- MODULE Spec2Model ----
(***************************************************************************)
(* Model of rustymp3: the bit-field extractor (utils.rs), the frame header *)
(* model and the frame synchronizer / decoder facade (decoder.rs).         *)
(*                                                                         *)
(* Unsigned integers of every width are modelled as the set of positions   *)
(* of their 1 bits (position 0 = least significant), so that u32 and u64   *)
(* values keep their full width.                                           *)
(***************************************************************************)
EXTENDS Integers, Sequences, FiniteSets

VARIABLES
    buf,               \* the caller's byte buffer (never owned by the Decoder)
    raw,               \* Decoder.raw: the view of the bytes not yet consumed
    outcome,           \* result of the last next_frame call
    status,            \* "ok", or the panic that aborted a call
    calls,             \* number of next_frame calls made so far
    examined,          \* bytes shifted into the candidate by the last call
    before,            \* Len(raw) when the last call started
    prev,              \* outcome of the call before the last one
    debug_assertions,  \* build profile: TRUE = debug, FALSE = release
    arg,               \* input of the pure function under check
    ret                \* its result

vars == <<buf, raw, outcome, status, calls, examined, before, prev,
          debug_assertions, arg, ret>>

-----------------------------------------------------------------------------
(* Bounds *)

MaxLen == 7
MaxCalls == 3
MaxOver == 5

-----------------------------------------------------------------------------
(* Unsigned integers as bit sets *)

Pow2(n) == 2 ^ n

\* the bits of a small non-negative literal (n < 2^16)
Bits(n) == {i \in 0..15 : (n \div Pow2(i)) % 2 = 1}

RECURSIVE ToNat(_)
ToNat(x) ==
    IF x = {} THEN 0
    ELSE LET i == CHOOSE j \in x : TRUE IN Pow2(i) + ToNat(x \ {i})

\* x << n and x >> n on a W-bit unsigned integer, n < W
Shl(x, n, W) == {i + n : i \in {j \in x : j + n < W}}
Shr(x, n) == {i - n : i \in {j \in x : j >= n}}

\* a shift amount as the release build uses it: reduced modulo the width
\* (W divides 2^64, so the reduction of a wrapped usize is the same)
Masked(n, W) == ((n % W) + W) % W

-----------------------------------------------------------------------------
(* utils.rs: UIntBitsRng::bit_range *)

Unbounded == [k |-> "Unbounded", n |-> 0]
Included(n) == [k |-> "Included", n |-> n]
Excluded(n) == [k |-> "Excluded", n |-> n]

Val(x) == [tag |-> "val", val |-> x, msg |-> ""]
PanicWith(m) == [tag |-> "panic", val |-> {}, msg |-> m]

\* the five shifts of the final expression
ShiftChain(self, W, low, hig, dbg) ==
    IF dbg /\ low >= W THEN PanicWith("attempt to shift right with overflow")
    ELSE IF dbg /\ hig >= W THEN PanicWith("attempt to shift left with overflow")
    ELSE LET l == Masked(low, W)
             h == Masked(hig, W)
         IN Val(Shr(Shr(Shl(Shl(Shr(self, l), l, W), h, W), h), l))

bit_range(self, W, start, end, dbg) ==
    LET self_sz == W
        low == IF start.k = "Unbounded" THEN 0 ELSE start.n
        hig == CASE end.k = "Unbounded" -> 0
                 [] end.k = "Included" -> self_sz - 1 - end.n
                 [] end.k = "Excluded" -> self_sz - end.n
    IN  IF dbg /\ end.k = "Included" /\ ~(end.n < self_sz)
            THEN PanicWith("out of range")
        ELSE IF dbg /\ end.k = "Excluded" /\ ~(end.n <= self_sz)
            THEN PanicWith("out of range")
        ELSE IF dbg /\ end.k # "Unbounded" /\ ~(low <= end.n)
            THEN PanicWith("incorrect range")
        ELSE IF dbg /\ ~(low <= self_sz)
            THEN PanicWith("out of range")
        ELSE ShiftChain(self, W, low, hig, dbg)

\* bit_range on a u32 with a range literal lo..hi
Range32(w, lo, hi, dbg) == bit_range(w, 32, Included(lo), Excluded(hi), dbg).val

-----------------------------------------------------------------------------
(* result.rs and decoder.rs: Header *)

None == [tag |-> "None", kind |-> "", msg |-> "", hdr |-> {}]
NotCalled == [tag |-> "NotCalled", kind |-> "", msg |-> "", hdr |-> {}]
Ok(h) == [tag |-> "Ok", kind |-> "", msg |-> "", hdr |-> h]
UnsupportedFormat(m) ==
    [tag |-> "Err", kind |-> "UnsupportedFormat", msg |-> m, hdr |-> {}]
InvalidHeader(m) ==
    [tag |-> "Err", kind |-> "InvalidHeader", msg |-> m, hdr |-> {}]

is_mpeg25(h, dbg) == Range32(h, 20, 21, dbg) = Bits(0)
is_mpeg2(h, dbg) == Range32(h, 19, 20, dbg) = Bits(1)

layer(h, dbg) ==
    CASE ToNat(Range32(h, 17, 19, dbg)) = 0 -> "Reserved"
      [] ToNat(Range32(h, 17, 19, dbg)) = 1 -> "L3"
      [] ToNat(Range32(h, 17, 19, dbg)) = 2 -> "L2"
      [] ToNat(Range32(h, 17, 19, dbg)) = 3 -> "L1"

is_protected(h, dbg) == Range32(h, 16, 17, dbg) = Bits(0)

bitrate_index_low(h, dbg) == ToNat(Range32(h, 11, 15, dbg))
bitrate_index(h, dbg) == ToNat(Range32(h, 12, 16, dbg))

sampling_rate_index(h, dbg) == ToNat(Range32(h, 10, 12, dbg))

emphasis(h, dbg) ==
    CASE ToNat(Range32(h, 0, 2, dbg)) = 0 -> "None"
      [] ToNat(Range32(h, 0, 2, dbg)) = 1 -> "Ms_50_15"
      [] ToNat(Range32(h, 0, 2, dbg)) = 2 -> "Reserved"
      [] ToNat(Range32(h, 0, 2, dbg)) = 3 -> "CCIT_J_17"

from_raw_swapped(w, dbg) ==
    IF is_mpeg25(w, dbg) THEN UnsupportedFormat("MPEG-2.5")
    ELSE IF is_mpeg2(w, dbg) THEN UnsupportedFormat("MPEG-2")
    ELSE IF bitrate_index(w, dbg) = 15
        THEN InvalidHeader("bitrate index 0b1111 is invalid")
    ELSE IF layer(w, dbg) = "Reserved"
        THEN InvalidHeader("layer 0x00 is reserved")
    ELSE IF sampling_rate_index(w, dbg) = 3
        THEN InvalidHeader("sampling rate index 0b11 is reserved")
    ELSE IF emphasis(w, dbg) = "Reserved"
        THEN InvalidHeader("emphasis 0b10 is reserved")
    ELSE Ok(w)

from_raw(w, dbg) ==
    IF is_mpeg25(w, dbg) THEN UnsupportedFormat("MPEG-2.5")
    ELSE IF is_mpeg2(w, dbg) THEN UnsupportedFormat("MPEG-2")
    ELSE IF layer(w, dbg) = "Reserved"
        THEN InvalidHeader("layer 0x00 is reserved")
    ELSE IF bitrate_index(w, dbg) = 15
        THEN InvalidHeader("bitrate index 0b1111 is invalid")
    ELSE IF sampling_rate_index(w, dbg) = 3
        THEN InvalidHeader("sampling rate index 0b11 is reserved")
    ELSE IF emphasis(w, dbg) = "Reserved"
        THEN InvalidHeader("emphasis 0b10 is reserved")
    ELSE Ok(w)

-----------------------------------------------------------------------------
(* decoder.rs: Decoder::read_header, utils.rs: SliceExt::advance *)

\* a byte widened to u32
ByteBits(b) == {i \in 0..7 : (b \div Pow2(i)) % 2 = 1}

\* (raw.bit_range(20..32) | 1) as u16 == 0xfff0
starts_with_syncword(w, dbg) ==
    {i \in (Range32(w, 20, 32, dbg) \cup Bits(1)) : i < 16} = Bits(65520)

\* &self[n..]: the slice index is bounds-checked and panics when n > len
advance_short(s, n) ==
    IF n > Len(s) THEN [ok |-> FALSE, s |-> s]
    ELSE [ok |-> TRUE, s |-> SubSeq(s, n, Len(s))]

advance(s, n) ==
    IF n > Len(s) THEN [ok |-> FALSE, s |-> s]
    ELSE [ok |-> TRUE, s |-> SubSeq(s, n + 1, Len(s))]

\* the early return of read_header
TooShortForHeader_off(s) == Len(s) < 3
TooShortForHeader(s) == Len(s) < 4

\* the early return of the CRC branch
TooShortForCrc(s) == Len(s) < 2

\* the big-endian assembly of the first four bytes
FirstWord(s) ==
    Shl(ByteBits(s[1]), 24, 32) \cup Shl(ByteBits(s[2]), 16, 32)
        \cup Shl(ByteBits(s[3]), 8, 32) \cup ByteBits(s[4])

\* the resynchronisation loop: `for byte in self.raw.iter()` walks a copy of
\* the view; self.raw itself is not advanced by the loop
RECURSIVE Resync(_, _, _, _)
Resync(w, s, i, dbg) ==
    IF i > Len(s) THEN [word |-> w, examined |-> i - 1]
    ELSE LET w2 == Shl(w, 8, 32) \cup ByteBits(s[i])
         IN IF starts_with_syncword(w2, dbg)
            THEN [word |-> w2, examined |-> i]
            ELSE Resync(w2, s, i + 1, dbg)

\* the tail of read_header: header validation and the CRC field
Decode(w, s, j, dbg) ==
    LET r == from_raw(w, dbg) IN
    IF r.tag = "Err"
        THEN [raw |-> s, result |-> r, examined |-> j, ok |-> TRUE]
    ELSE IF ~is_protected(r.hdr, dbg)
        THEN [raw |-> s, result |-> r, examined |-> j, ok |-> TRUE]
    ELSE IF TooShortForCrc(s)
        THEN [raw |-> s, result |-> None, examined |-> j, ok |-> TRUE]
    ELSE LET a == advance(s, 2)
         IN [raw |-> a.s, result |-> r, examined |-> j, ok |-> a.ok]

read_header(s, dbg) ==
    IF TooShortForHeader(s)
        THEN [raw |-> s, result |-> None, examined |-> 0, ok |-> TRUE]
    ELSE IF Len(s) < 4      \* self.raw[3]: index out of bounds
        THEN [raw |-> s, result |-> None, examined |-> 0, ok |-> FALSE]
    ELSE LET a == advance(s, 4)
             w == FirstWord(s)
         IN IF ~a.ok
                THEN [raw |-> s, result |-> None, examined |-> 0, ok |-> FALSE]
            ELSE IF starts_with_syncword(w, dbg)
                THEN Decode(w, a.s, 0, dbg)
            ELSE LET f == Resync(w, a.s, 1, dbg)
                 IN IF ~starts_with_syncword(f.word, dbg)
                        THEN [raw |-> a.s, result |-> None,
                              examined |-> f.examined, ok |-> TRUE]
                    ELSE Decode(f.word, a.s, f.examined, dbg)

-----------------------------------------------------------------------------
(* The Decoder over a caller-supplied buffer *)

\* garbage, 0xF5 (second byte of an unprotected layer II header with
\* bit 20 = 1 and bit 19 = 0) and 0xFF
Bytes == {0, 245, 255}

Buffers == UNION {[1..n -> Bytes] : n \in 0..MaxLen}

NoArg == [w |-> 0, v |-> {}, start |-> Unbounded, end |-> Unbounded]
NoRet == [tag |-> "none", val |-> {}, msg |-> "", kind |-> "", hdr |-> {}]

\* Decoder::from(raw)
Init ==
    /\ buf \in Buffers
    /\ raw = buf
    /\ outcome = NotCalled
    /\ status = "ok"
    /\ calls = 0
    /\ examined = 0
    /\ before = 0
    /\ prev = NotCalled
    /\ debug_assertions \in BOOLEAN
    /\ arg = NoArg
    /\ ret = NoRet

\* Decoder::next_frame: `self.read_header()?`, then unimplemented!()
next_frame ==
    /\ status = "ok"
    /\ calls < MaxCalls
    /\ LET r == read_header(raw, debug_assertions) IN
        /\ raw' = r.raw
        /\ examined' = r.examined
        /\ outcome' = r.result
        /\ status' = IF ~r.ok THEN "index out of bounds"
                     ELSE IF r.result.tag = "None" THEN "ok"
                     ELSE "not implemented"
    /\ before' = Len(raw)
    /\ prev' = outcome
    /\ calls' = calls + 1
    /\ UNCHANGED <<buf, debug_assertions, arg, ret>>

Next == next_frame

Spec == Init /\ [][Next]_vars

\* bytes consumed so far
Cursor == Len(buf) - Len(raw)

-----------------------------------------------------------------------------
(* bit_range as a pure function: inputs drawn in the initial state *)

Widths == {8, 16, 32, 64}

\* all ones, the value 1, and every second bit
Values(W) == {0..(W - 1), {0}, {i \in 0..(W - 1) : i % 2 = 1}}

Starts(W) == {Unbounded} \cup {Included(n) : n \in 0..(W + MaxOver)}

Ends(W) ==
    {Unbounded} \cup {Included(n) : n \in 0..(W + MaxOver)}
        \cup {Excluded(n) : n \in 0..(W + MaxOver)}

BitArgs ==
    UNION {[w : {W}, v : Values(W), start : Starts(W), end : Ends(W)] :
               W \in Widths}

DecoderIdle ==
    /\ buf = <<>>
    /\ raw = <<>>
    /\ outcome = NotCalled
    /\ status = "ok"
    /\ calls = 0
    /\ examined = 0
    /\ before = 0
    /\ prev = NotCalled

InitBits ==
    /\ DecoderIdle
    /\ debug_assertions \in BOOLEAN
    /\ arg \in BitArgs
    /\ ret = NoRet

CallBitRange ==
    /\ ret.tag = "none"
    /\ ret' = [NoRet EXCEPT
                 !.tag = bit_range(arg.v, arg.w, arg.start, arg.end,
                                   debug_assertions).tag,
                 !.val = bit_range(arg.v, arg.w, arg.start, arg.end,
                                   debug_assertions).val,
                 !.msg = bit_range(arg.v, arg.w, arg.start, arg.end,
                                   debug_assertions).msg]
    /\ UNCHANGED <<buf, raw, outcome, status, calls, examined, before, prev,
                   debug_assertions, arg>>

NextBits == CallBitRange

SpecBits == InitBits /\ [][NextBits]_vars

\* the half-open span [RangeLow, RangeHigh) a range denotes
RangeLow(a) == IF a.start.k = "Unbounded" THEN 0 ELSE a.start.n
RangeHigh(a) ==
    CASE a.end.k = "Unbounded" -> a.w
      [] a.end.k = "Included" -> a.end.n + 1
      [] a.end.k = "Excluded" -> a.end.n

\* (v mod 2^high) div 2^low
Reference(v, low, high) == {i - low : i \in {j \in v : low <= j /\ j < high}}

-----------------------------------------------------------------------------
(* Header decoding and the syncword predicate as pure functions *)

\* a field value placed at bit position lo
Place(val, lo) == {i + lo : i \in Bits(val)}

HeaderWord(sync, v20, v19, lay, prot, br, sr, emph) ==
    Place(sync, 21) \cup Place(v20, 20) \cup Place(v19, 19) \cup Place(lay, 17)
        \cup Place(prot, 16) \cup Place(br, 12) \cup Place(sr, 10)
        \cup Place(emph, 0)

Words ==
    {HeaderWord(t[1], t[2], t[3], t[4], t[5], t[6], t[7], t[8]) :
        t \in {2047, 2046, 1023} \X {0, 1} \X {0, 1} \X (0..3) \X {0, 1}
                \X {0, 8, 15} \X {0, 3} \X {0, 2, 3}}

InitHdr ==
    /\ DecoderIdle
    /\ debug_assertions \in BOOLEAN
    /\ arg \in [w : {32}, v : Words, start : {Unbounded}, end : {Unbounded}]
    /\ ret = NoRet

DecodeHeader ==
    /\ ret.tag = "none"
    /\ ret' = [NoRet EXCEPT
                 !.tag = from_raw(arg.v, debug_assertions).tag,
                 !.kind = from_raw(arg.v, debug_assertions).kind,
                 !.msg = from_raw(arg.v, debug_assertions).msg,
                 !.hdr = from_raw(arg.v, debug_assertions).hdr]
    /\ UNCHANGED <<buf, raw, outcome, status, calls, examined, before, prev,
                   debug_assertions, arg>>

TestSyncword ==
    /\ ret.tag = "none"
    /\ ret' = [NoRet EXCEPT
                 !.tag = IF starts_with_syncword(arg.v, debug_assertions)
                         THEN "Sync" ELSE "NoSync"]
    /\ UNCHANGED <<buf, raw, outcome, status, calls, examined, before, prev,
                   debug_assertions, arg>>

NextHdr == DecodeHeader \/ TestSyncword

SpecHdr == InitHdr /\ [][NextHdr]_vars

\* reference reading of the field of `width` bits at position lo
Field(w, lo, width) == ToNat(Reference(w, lo, lo + width))

\* the top 11 bits
HasSync(w) == \A i \in 21..31 : i \in w

-----------------------------------------------------------------------------
(* Claims about the synchronizer and the facade (Spec) *)

\* the 32-bit big-endian word at byte offset i (1-based) of a buffer
WordAt(b, i) == FirstWord(SubSeq(b, i, i + 3))

\* k bytes holding no syncword match, then a 4-byte header that validation
\* accepts and that carries no CRC
GarbageThenHeader(b, dbg) ==
    /\ Len(b) >= 4
    /\ \A i \in 1..(Len(b) - 4) : ~HasSync(WordAt(b, i))
    /\ HasSync(WordAt(b, Len(b) - 3))
    /\ from_raw(WordAt(b, Len(b) - 3), dbg).tag = "Ok"
    /\ ~is_protected(WordAt(b, Len(b) - 3), dbg)

\* C1: on a buffer of k non-matching bytes followed by a valid unprotected
\* header, the first call finds and decodes exactly that header and the
\* cursor ends after the header, k + 4 bytes consumed.
C1_FindsHeaderAfterGarbage ==
    (calls = 1 /\ GarbageThenHeader(buf, debug_assertions)) =>
        /\ outcome.tag = "Ok"
        /\ outcome.hdr = WordAt(buf, Len(buf) - 3)
        /\ Cursor = Len(buf)

\* C5: when the candidate matched by the synchronizer fails validation,
\* next_frame returns that error as a value without panicking, and the
\* cursor stays where the synchronizer stopped (here: after the 4 bytes of
\* a candidate that opens the buffer, no CRC bytes consumed).
C5_HeaderErrorReturned ==
    (/\ calls = 1
     /\ Len(buf) >= 4
     /\ HasSync(WordAt(buf, 1))
     /\ from_raw(WordAt(buf, 1), debug_assertions).tag = "Err") =>
        /\ outcome = from_raw(WordAt(buf, 1), debug_assertions)
        /\ status = "ok"
        /\ Cursor = 4

\* C8: every byte shifted into the candidate during resynchronisation is
\* consumed: a call that examined j bytes beyond the first 4 and consumed no
\* CRC advanced the cursor by 4 + j, and after exhaustion without a match
\* no byte remains.
C8_ResyncConsumesExaminedBytes ==
    (calls >= 1 /\ before >= 4 /\ outcome.tag = "None") =>
        /\ before - Len(raw) = 4 + examined
        /\ (examined = before - 4 => Len(raw) = 0)

\* C9: from call to call the cursor never moves backwards and never passes
\* the end of the buffer, no slice index goes out of bounds, the buffer is
\* not modified and the view stays the unconsumed suffix of the buffer.
C9_CursorMonotoneInBounds ==
    [][/\ Cursor' >= Cursor
       /\ Cursor' <= Len(buf')
       /\ status' # "index out of bounds"
       /\ buf' = buf
       /\ raw' = SubSeq(buf, Cursor' + 1, Len(buf))]_vars

\* a second call that started with 1..3 bytes left after the first consumed 4
C9_Witness ==
    /\ calls = 2
    /\ Cursor = 4
    /\ Len(raw) \in 1..3
    /\ status = "ok"

\* C10: a call with at least 4 bytes remaining consumes at least 4, so that
\* no more data is reported within Len(buf) \div 4 + 1 calls; a call with
\* fewer than 4 reports no more data and leaves the cursor unchanged; once
\* a call reported no more data every later call does.
C10_NoMoreDataReachedAndAbsorbing ==
    [][/\ Len(raw) >= 4 => Len(raw') <= Len(raw) - 4
       /\ Len(raw) < 4 => (outcome'.tag = "None" /\ raw' = raw)
       /\ outcome.tag = "None" => outcome'.tag = "None"
       /\ calls' > Len(buf) \div 4 => outcome'.tag = "None"]_vars

\* no more data reported twice in a row, the second time on a short rest of
\* a buffer that held at least one full word
C10_Witness ==
    /\ calls >= 2
    /\ prev.tag = "None"
    /\ outcome.tag = "None"
    /\ before \in 1..3
    /\ Len(buf) >= 4

-----------------------------------------------------------------------------
(* Claims about bit_range (SpecBits) *)

ValidRange(a) ==
    /\ 0 <= RangeLow(a)
    /\ RangeLow(a) <= RangeHigh(a)
    /\ RangeHigh(a) <= a.w

\* low > high, an end bound beyond the width, or a start bound beyond it
ContractViolation(a) ==
    \/ a.end.k # "Unbounded" /\ RangeLow(a) > a.end.n
    \/ a.end.k = "Excluded" /\ a.end.n > a.w
    \/ a.end.k = "Included" /\ a.end.n >= a.w
    \/ RangeLow(a) > a.w

\* C2: for every width, value and range 0 <= low <= high <= W (empty ranges,
\* high = 0, low = W, unbounded bounds and inclusive ends included)
\* bit_range returns, and returns (v mod 2^high) div 2^low.
C2_BitRangeEqualsReference ==
    (ret.tag # "none" /\ ValidRange(arg)) =>
        /\ ret.tag = "val"
        /\ ret.val = Reference(arg.v, RangeLow(arg), RangeHigh(arg))

\* C6: for every width, bit_range panics instead of returning a value
\* whenever the range is a contract violation.
C6_BitRangeHaltsOnViolation ==
    (ret.tag # "none" /\ ContractViolation(arg)) => ret.tag = "panic"

-----------------------------------------------------------------------------
(* Claims about header validation and the syncword predicate (SpecHdr) *)

\* the six checks in their order, read straight from the fields
CheckFails(i, w) ==
    CASE i = 1 -> Field(w, 20, 1) = 0
      [] i = 2 -> Field(w, 19, 1) = 1
      [] i = 3 -> Field(w, 17, 2) = 0
      [] i = 4 -> Field(w, 12, 4) = 15
      [] i = 5 -> Field(w, 10, 2) = 3
      [] i = 6 -> Field(w, 0, 2) = 2

CheckError(i) ==
    CASE i = 1 -> UnsupportedFormat("MPEG-2.5")
      [] i = 2 -> UnsupportedFormat("MPEG-2")
      [] i = 3 -> InvalidHeader("layer 0x00 is reserved")
      [] i = 4 -> InvalidHeader("bitrate index 0b1111 is invalid")
      [] i = 5 -> InvalidHeader("sampling rate index 0b11 is reserved")
      [] i = 6 -> InvalidHeader("emphasis 0b10 is reserved")

FailedChecks(w) == {i \in 1..6 : CheckFails(i, w)}

FirstFailure(w) == CHOOSE i \in FailedChecks(w) : \A j \in FailedChecks(w) : i <= j

Decoded == ret.tag \in {"Ok", "Err"}

\* C3: the reported error is that of the first failing check in the order
\* MPEG-2.5, MPEG-2, layer, bitrate index, sampling rate, emphasis, and the
\* word is accepted as a Header exactly when no check fails.
C3_FirstFailingCheckReported ==
    Decoded =>
        IF FailedChecks(arg.v) = {}
            THEN ret.tag = "Ok" /\ ret.hdr = arg.v
            ELSE /\ ret.tag = "Err"
                 /\ ret.kind = CheckError(FirstFailure(arg.v)).kind
                 /\ ret.msg = CheckError(FirstFailure(arg.v)).msg

\* a decoded word on which a later check fails together with an earlier one
C3_Witness ==
    /\ Decoded
    /\ Cardinality(FailedChecks(arg.v)) >= 2
    /\ ret.msg = "layer 0x00 is reserved"

\* C4 as stated: bitrate index 0b1111 yields InvalidHeader whatever the
\* other fields are.
C4_BitrateAlwaysInvalidHeader ==
    (Decoded /\ Field(arg.v, 12, 4) = 15) =>
        ret.tag = "Err" /\ ret.kind = "InvalidHeader"

\* C4 amended: bitrate index 0b1111 always yields an error, never a Header;
\* its kind is UnsupportedFormat when a version check fires first (bit 20
\* clear or bit 19 set) and InvalidHeader otherwise.
C4_BitrateAlwaysRejected ==
    (Decoded /\ Field(arg.v, 12, 4) = 15) =>
        /\ ret.tag = "Err"
        /\ ret.kind = IF 20 \notin arg.v \/ 19 \in arg.v
                      THEN "UnsupportedFormat" ELSE "InvalidHeader"

\* bitrate index 0b1111 with every other field legal, rejected for the
\* bitrate index itself
C4_Witness ==
    /\ Decoded
    /\ FailedChecks(arg.v) = {4}
    /\ ret.msg = "bitrate index 0b1111 is invalid"

\* C7: the predicate accepts a word exactly when its top 11 bits are all 1,
\* whatever bit 20 is.
C7_SyncwordIffTopElevenBits ==
    (ret.tag \in {"Sync", "NoSync"}) =>
        (ret.tag = "Sync" <=> HasSync(arg.v))

====
